---- MODULE Spec2Model ----
(***************************************************************************)
(* Two-party rendezvous of sync-point.                                     *)
(*                                                                         *)
(* The route wait_for_party (src/src/api/routes.rs) obtains the wait point *)
(* of a key from the registry (get_or_create_point), increments its        *)
(* counter and dispatches on the value read; the role handlers and the     *)
(* registry operations are those of SyncService                            *)
(* (src/src/api/sync_service.rs).  Every request runs on a multi-threaded  *)
(* runtime, so each atomic step of a request (a try-lock, the operation    *)
(* made under the lock together with the release of the guard, the         *)
(* fetch_add, the end of the wait) is one action.                          *)
(***************************************************************************)
EXTENDS Integers, FiniteSets, Sequences, TLC

\* Number of requests that arrive in one behaviour.
MaxArrivals == 3

Arrivals == 1..MaxArrivals

\* The unique_id values the requests carry.
Keys == {"A", "B"}

\* One WaitPoint is allocated per successful insert, so there are at most
\* as many points as arrivals.
Points == 1..MaxArrivals

\* App::DEFAULT_TIMEOUT, the timeout of an application built with no source.
DEFAULT_TIMEOUT == 10

VARIABLES
    pc,            \* position of each request in wait_for_party
    unique_id,     \* the key of each request ("" before it arrives)
    point,         \* the Arc<WaitPoint> each request holds (0: none)
    previous,      \* value returned by fetch_add (-1: not yet executed)
    result,        \* how the first party's wait ended: "none", "Ok", "Err"
    response,      \* the response of each request
    wait_points,   \* HashMap<String, Arc<WaitPoint>>: key -> point
    lock,          \* the RwLock around the map: readers and writer
    parties_count, \* WaitPoint.parties_count of every point
    notify,        \* WaitPoint.notify: TRUE when a permit is stored
    allocated,     \* number of WaitPoint::new() calls so far
    solitary,      \* history: no other request of the key since it arrived
    resolvedBefore,\* history: points of the key resolved before it arrived
    blockedBy,     \* history: holders of the lock when its try-lock failed
    effects,       \* history: what the request did to the registry
    seen,          \* history: the lookup returned a point already paired
    app            \* the configuration sources and the App built from them

vars == <<pc, unique_id, point, previous, result, response, wait_points,
          lock, parties_count, notify, allocated, solitary, resolvedBefore,
          blockedBy, effects, seen, app>>

----------------------------------------------------------------------------
\* App::new and App::validate_timeout (app.rs).  A source that sets the
\* timeout is {t}, one that does not is {}; the values are u64.

MIN_TIMEOUT == 5

MAX_TIMEOUT == 300

\* Largest timeout a configuration source sets.
MaxConfigTimeout == 301

Sources == {{}} \cup {{t} : t \in 0..MaxConfigTimeout}

\* Config::builder(): the default, then the file, then the environment; a
\* later source overrides an earlier one.
get_timeout(file, env) ==
    IF env # {} THEN CHOOSE t \in env : TRUE
    ELSE IF file # {} THEN CHOOSE t \in file : TRUE
    ELSE DEFAULT_TIMEOUT

\* validate_timeout with the lower bound excluded.
validate_timeout_Exclusive(t) ==
    IF t <= MIN_TIMEOUT THEN "Err"
    ELSE IF t > MAX_TIMEOUT THEN "Err"
    ELSE "Ok"

\* App::validate_timeout
validate_timeout(t) ==
    IF t < MIN_TIMEOUT THEN "Err"
    ELSE IF t > MAX_TIMEOUT THEN "Err"
    ELSE "Ok"

\* App::new: Ok(App { timeout, .. }) or Err(ConfigError)
App_new(file, env) ==
    IF validate_timeout(get_timeout(file, env)) = "Ok"
    THEN [file |-> file, env |-> env, state |-> "Ok",
          timeout |-> {get_timeout(file, env)}]
    ELSE [file |-> file, env |-> env, state |-> "Err", timeout |-> {}]

----------------------------------------------------------------------------
\* ApiResponse and its constructors (response.rs), wrapped in Custom with
\* the HTTP status the handlers give them.  A message is the sequence of the
\* parts that format! joins; timeout_duration_sec is an Option: {} is None.

NoResponse ==
    [code |-> "none", status |-> "none", message |-> <<>>,
     timeout_duration_sec |-> {}]

\* ApiResponse::success: message "[unique_id] message"
success(message, id) ==
    [code |-> "Ok", status |-> "success", message |-> <<id, message>>,
     timeout_duration_sec |-> {}]

\* ApiResponse::timeout: message "[unique_id] Request timed out"
timeout(duration, id) ==
    [code |-> "RequestTimeout", status |-> "timeout",
     message |-> <<id, "Request timed out">>,
     timeout_duration_sec |-> {duration}]

\* ApiResponse::error, as handle_extra_party wraps it
error(message) ==
    [code |-> "Conflict", status |-> "error", message |-> <<message>>,
     timeout_duration_sec |-> {}]

\* ApiResponse::service_unavailable
service_unavailable ==
    [code |-> "ServiceUnavailable", status |-> "error",
     message |-> <<"Service temporarily unavailable">>,
     timeout_duration_sec |-> {}]

----------------------------------------------------------------------------
\* The RwLock (parking_lot): try_read fails when a writer holds the lock,
\* try_write fails when anybody holds it.

try_read_ok == lock.writer = {}

try_write_ok == lock.writer = {} /\ lock.readers = {}

Holders == lock.readers \cup lock.writer

InFlight(a) == pc[a] \notin {"idle", "done"}

\* The other requests of key k that have arrived and not yet responded.
OthersInFlight(a, k) ==
    {b \in Arrivals \ {a} : InFlight(b) /\ unique_id[b] = k}

\* No lookup of the request has returned a point that was already paired.
NotSeen == "no"

\* What a lookup finds on point p: "full" when the second party has already
\* incremented its counter, "signalled" when that second party has also
\* called notify_one, and NotSeen otherwise.
Seen(p) ==
    IF parties_count[p] < 2 THEN NotSeen
    ELSE IF \E s \in Arrivals :
               point[s] = p /\ previous[s] = 1 /\ pc[s] = "done"
         THEN "signalled"
         ELSE "full"

\* The points of key k whose first party has been answered with success or
\* timeout.
Resolved(k) ==
    {point[f] : f \in {g \in Arrivals :
                         /\ unique_id[g] = k
                         /\ previous[g] = 0
                         /\ response[g].status \in {"success", "timeout"}}}

----------------------------------------------------------------------------
Init ==
    /\ pc = [a \in Arrivals |-> "idle"]
    /\ unique_id = [a \in Arrivals |-> ""]
    /\ point = [a \in Arrivals |-> 0]
    /\ previous = [a \in Arrivals |-> -1]
    /\ result = [a \in Arrivals |-> "none"]
    /\ response = [a \in Arrivals |-> NoResponse]
    /\ wait_points = <<>>
    /\ lock = [readers |-> {}, writer |-> {}]
    /\ parties_count = [p \in Points |-> 0]
    /\ notify = [p \in Points |-> FALSE]
    /\ allocated = 0
    /\ solitary = [a \in Arrivals |-> FALSE]
    /\ resolvedBefore = [a \in Arrivals |-> {}]
    /\ blockedBy = [a \in Arrivals |-> {}]
    /\ effects = [a \in Arrivals |-> {}]
    /\ seen = [a \in Arrivals |-> NotSeen]
    /\ app = App_new({}, {})

\* A request for key k enters wait_for_party.  Requests are numbered in the
\* order in which they arrive, and keys are named in the order in which
\* they are first used ("A" before "B").
Arrive(a, k) ==
    /\ pc[a] = "idle"
    /\ \A b \in 1..(a - 1) : pc[b] # "idle"
    /\ k = "B" => \E b \in Arrivals : unique_id[b] = "A"
    /\ pc' = [pc EXCEPT ![a] = "try_read"]
    /\ unique_id' = [unique_id EXCEPT ![a] = k]
    /\ solitary' = [b \in Arrivals |->
                      IF b = a THEN OthersInFlight(a, k) = {}
                      ELSE IF InFlight(b) /\ unique_id[b] = k THEN FALSE
                      ELSE solitary[b]]
    /\ resolvedBefore' = [resolvedBefore EXCEPT ![a] = Resolved(k)]
    /\ UNCHANGED <<point, previous, result, response, wait_points, lock,
                   parties_count, notify, allocated, blockedBy, effects>>
    /\ UNCHANGED <<seen, app>>

\* get_or_create_point: self.wait_points.try_read()
TryRead(a) ==
    /\ pc[a] = "try_read"
    /\ IF try_read_ok
       THEN /\ lock' = [lock EXCEPT !.readers = @ \cup {a}]
            /\ pc' = [pc EXCEPT ![a] = "lookup"]
            /\ UNCHANGED <<response, blockedBy>>
       ELSE /\ response' = [response EXCEPT ![a] = service_unavailable]
            /\ blockedBy' = [blockedBy EXCEPT ![a] = Holders]
            /\ pc' = [pc EXCEPT ![a] = "done"]
            /\ UNCHANGED lock
    /\ UNCHANGED <<unique_id, point, previous, result, wait_points,
                   parties_count, notify, allocated, solitary,
                   resolvedBefore, effects>>
    /\ UNCHANGED <<seen, app>>

\* Lookup that returns the point found with the read guard still alive.
Lookup_KeepsGuard(a) ==
    /\ pc[a] = "lookup"
    /\ IF unique_id[a] \in DOMAIN wait_points
       THEN /\ point' = [point EXCEPT ![a] = wait_points[unique_id[a]]]
            /\ seen' = [seen EXCEPT ![a] = Seen(wait_points[unique_id[a]])]
            /\ pc' = [pc EXCEPT ![a] = "fetch_add"]
            /\ UNCHANGED lock
       ELSE /\ pc' = [pc EXCEPT ![a] = "try_write"]
            /\ lock' = [lock EXCEPT !.readers = @ \ {a}]
            /\ UNCHANGED <<point, seen>>
    /\ UNCHANGED <<unique_id, previous, result, response, wait_points,
                   parties_count, notify, allocated, solitary,
                   resolvedBefore, blockedBy, effects, app>>

\* get_or_create_point: guard.get(unique_id).cloned(), then the read guard
\* is dropped.
Lookup(a) ==
    /\ pc[a] = "lookup"
    /\ lock' = [lock EXCEPT !.readers = @ \ {a}]
    /\ IF unique_id[a] \in DOMAIN wait_points
       THEN /\ point' = [point EXCEPT ![a] = wait_points[unique_id[a]]]
            /\ seen' = [seen EXCEPT ![a] = Seen(wait_points[unique_id[a]])]
            /\ pc' = [pc EXCEPT ![a] = "fetch_add"]
       ELSE /\ pc' = [pc EXCEPT ![a] = "try_write"]
            /\ UNCHANGED <<point, seen>>
    /\ UNCHANGED <<unique_id, previous, result, response, wait_points,
                   parties_count, notify, allocated, solitary,
                   resolvedBefore, blockedBy, effects>>
    /\ UNCHANGED app

\* TryWrite that creates and registers the point before it reports the
\* failure of try_write.
TryWrite_InsertsOnFailure(a) ==
    /\ pc[a] = "try_write"
    /\ IF try_write_ok
       THEN /\ lock' = [lock EXCEPT !.writer = {a}]
            /\ pc' = [pc EXCEPT ![a] = "insert"]
            /\ UNCHANGED <<response, blockedBy, wait_points, allocated>>
       ELSE /\ response' = [response EXCEPT ![a] = service_unavailable]
            /\ blockedBy' = [blockedBy EXCEPT ![a] = Holders]
            /\ pc' = [pc EXCEPT ![a] = "done"]
            /\ allocated' = allocated + 1
            /\ wait_points' = [k \in DOMAIN wait_points \cup {unique_id[a]}
                                 |-> IF k = unique_id[a] THEN allocated + 1
                                     ELSE wait_points[k]]
            /\ UNCHANGED lock
    /\ UNCHANGED <<unique_id, point, previous, result, parties_count,
                   notify, solitary, resolvedBefore, effects, seen, app>>

\* get_or_create_point: self.wait_points.try_write()
TryWrite(a) ==
    /\ pc[a] = "try_write"
    /\ IF try_write_ok
       THEN /\ lock' = [lock EXCEPT !.writer = {a}]
            /\ pc' = [pc EXCEPT ![a] = "insert"]
            /\ UNCHANGED <<response, blockedBy>>
       ELSE /\ response' = [response EXCEPT ![a] = service_unavailable]
            /\ blockedBy' = [blockedBy EXCEPT ![a] = Holders]
            /\ pc' = [pc EXCEPT ![a] = "done"]
            /\ UNCHANGED lock
    /\ UNCHANGED <<unique_id, point, previous, result, wait_points,
                   parties_count, notify, allocated, solitary,
                   resolvedBefore, effects>>
    /\ UNCHANGED <<seen, app>>

\* get_or_create_point: Arc::new(WaitPoint::new()), points.insert(..), then
\* the write guard is dropped.  HashMap::insert replaces an existing entry.
Insert(a) ==
    /\ pc[a] = "insert"
    /\ allocated' = allocated + 1
    /\ point' = [point EXCEPT ![a] = allocated + 1]
    /\ wait_points' = [k \in DOMAIN wait_points \cup {unique_id[a]} |->
                         IF k = unique_id[a] THEN allocated + 1
                         ELSE wait_points[k]]
    /\ effects' = [effects EXCEPT ![a] = @ \cup
                     (IF unique_id[a] \in DOMAIN wait_points
                      THEN {"replace"} ELSE {"insert"})]
    /\ lock' = [lock EXCEPT !.writer = {}]
    /\ pc' = [pc EXCEPT ![a] = "fetch_add"]
    /\ UNCHANGED <<unique_id, previous, result, response, parties_count,
                   notify, solitary, resolvedBefore, blockedBy>>
    /\ UNCHANGED <<seen, app>>

\* FetchAdd with load in place of fetch_add: the counter is read and not
\* incremented.
FetchAdd_LoadOnly(a) ==
    /\ pc[a] = "fetch_add"
    /\ previous' = [previous EXCEPT ![a] = parties_count[point[a]]]
    /\ pc' = [pc EXCEPT ![a] =
                CASE parties_count[point[a]] = 0 -> "first_wait"
                  [] parties_count[point[a]] = 1 -> "second"
                  [] OTHER -> "extra"]
    /\ UNCHANGED <<unique_id, point, result, response, wait_points, lock,
                   parties_count, notify, allocated, solitary,
                   resolvedBefore, blockedBy, effects, seen, app>>

\* FetchAdd with the arms of the match merged: every request that does not
\* read 0 is handled as second party.
FetchAdd_NoExtraArm(a) ==
    /\ pc[a] = "fetch_add"
    /\ previous' = [previous EXCEPT ![a] = parties_count[point[a]]]
    /\ parties_count' = [parties_count EXCEPT ![point[a]] = @ + 1]
    /\ pc' = [pc EXCEPT ![a] =
                IF parties_count[point[a]] = 0 THEN "first_wait"
                ELSE "second"]
    /\ UNCHANGED <<unique_id, point, result, response, wait_points, lock,
                   notify, allocated, solitary, resolvedBefore, blockedBy,
                   effects, seen, app>>

\* FetchAdd as a load followed by a store: the request may read the value
\* that the request before it on the point has read.
FetchAdd_LoadThenStore(a) ==
    /\ pc[a] = "fetch_add"
    /\ \E v \in {parties_count[point[a]], parties_count[point[a]] - 1} :
          /\ v >= 0
          /\ previous' = [previous EXCEPT ![a] = v]
          /\ pc' = [pc EXCEPT ![a] =
                      CASE v = 0 -> "first_wait"
                        [] v = 1 -> "second"
                        [] OTHER -> "extra"]
    /\ parties_count' = [parties_count EXCEPT ![point[a]] = @ + 1]
    /\ UNCHANGED <<unique_id, point, result, response, wait_points, lock,
                   notify, allocated, solitary, resolvedBefore, blockedBy,
                   effects, seen, app>>

\* wait_for_party: point.parties_count.fetch_add(1, SeqCst) and the match
\* on the value read.
FetchAdd(a) ==
    /\ pc[a] = "fetch_add"
    /\ previous' = [previous EXCEPT ![a] = parties_count[point[a]]]
    /\ parties_count' = [parties_count EXCEPT ![point[a]] = @ + 1]
    /\ pc' = [pc EXCEPT ![a] =
                CASE parties_count[point[a]] = 0 -> "first_wait"
                  [] parties_count[point[a]] = 1 -> "second"
                  [] OTHER -> "extra"]
    /\ UNCHANGED <<unique_id, point, result, response, wait_points, lock,
                   notify, allocated, solitary, resolvedBefore, blockedBy,
                   effects>>
    /\ UNCHANGED <<seen, app>>

\* Notified without the permit: the wait ends with Ok although nobody
\* called notify_one.
Notified_Spurious(a) ==
    /\ pc[a] = "first_wait"
    /\ result' = [result EXCEPT ![a] = "Ok"]
    /\ pc' = [pc EXCEPT ![a] = "cleanup"]
    /\ UNCHANGED <<unique_id, point, previous, response, wait_points, lock,
                   parties_count, notify, allocated, solitary,
                   resolvedBefore, blockedBy, effects, seen, app>>

\* handle_first_party: timeout(.., point.notify.notified()).await completes
\* with Ok: the permit stored by notify_one is consumed.
Notified(a) ==
    /\ pc[a] = "first_wait"
    /\ notify[point[a]]
    /\ notify' = [notify EXCEPT ![point[a]] = FALSE]
    /\ result' = [result EXCEPT ![a] = "Ok"]
    /\ pc' = [pc EXCEPT ![a] = "cleanup"]
    /\ UNCHANGED <<unique_id, point, previous, response, wait_points, lock,
                   parties_count, allocated, solitary, resolvedBefore,
                   blockedBy, effects>>
    /\ UNCHANGED <<seen, app>>

\* The wait without tokio::time::timeout: the deadline never ends it.
Elapsed_NoTimeout(a) ==
    /\ pc[a] = "first_wait"
    /\ FALSE
    /\ UNCHANGED vars

\* handle_first_party: the timeout elapses first (the inner future is polled
\* before the deadline, so this needs that no permit is stored).
Elapsed(a) ==
    /\ pc[a] = "first_wait"
    /\ ~notify[point[a]]
    /\ result' = [result EXCEPT ![a] = "Err"]
    /\ pc' = [pc EXCEPT ![a] = "cleanup"]
    /\ UNCHANGED <<unique_id, point, previous, response, wait_points, lock,
                   parties_count, notify, allocated, solitary,
                   resolvedBefore, blockedBy, effects>>
    /\ UNCHANGED <<seen, app>>

\* state.timeout.as_secs() of the managed App
state_timeout == CHOOSE t \in app.timeout : TRUE

\* match_result with the two arms exchanged.
match_result_Swapped(a) ==
    IF result[a] = "Ok"
    THEN timeout(state_timeout, unique_id[a])
    ELSE success("Welcome! (first party)", unique_id[a])

\* handle_first_party: match result, Ok is answered with success and the
\* elapsed timeout with the timeout response carrying state.timeout.
match_result(a) ==
    IF result[a] = "Ok"
    THEN success("Welcome! (first party)", unique_id[a])
    ELSE timeout(state_timeout, unique_id[a])

\* CleanupTryWrite with the result of cleanup_wait_point discarded: the
\* first party answers according to its wait although the lock was not
\* acquired.
CleanupTryWrite_IgnoresFailure(a) ==
    /\ pc[a] = "cleanup"
    /\ IF try_write_ok
       THEN /\ lock' = [lock EXCEPT !.writer = {a}]
            /\ pc' = [pc EXCEPT ![a] = "remove"]
            /\ UNCHANGED <<response, blockedBy>>
       ELSE /\ response' = [response EXCEPT ![a] =
                              match_result(a)]
            /\ blockedBy' = [blockedBy EXCEPT ![a] = Holders]
            /\ pc' = [pc EXCEPT ![a] = "done"]
            /\ UNCHANGED lock
    /\ UNCHANGED <<unique_id, point, previous, result, wait_points,
                   parties_count, notify, allocated, solitary,
                   resolvedBefore, effects>>
    /\ UNCHANGED <<seen, app>>

\* cleanup_wait_point: self.wait_points.try_write(); on failure
\* handle_first_party returns the error response.
CleanupTryWrite(a) ==
    /\ pc[a] = "cleanup"
    /\ IF try_write_ok
       THEN /\ lock' = [lock EXCEPT !.writer = {a}]
            /\ pc' = [pc EXCEPT ![a] = "remove"]
            /\ UNCHANGED <<response, blockedBy>>
       ELSE /\ response' = [response EXCEPT ![a] = service_unavailable]
            /\ blockedBy' = [blockedBy EXCEPT ![a] = Holders]
            /\ pc' = [pc EXCEPT ![a] = "done"]
            /\ UNCHANGED lock
    /\ UNCHANGED <<unique_id, point, previous, result, wait_points,
                   parties_count, notify, allocated, solitary,
                   resolvedBefore, effects>>
    /\ UNCHANGED <<seen, app>>

\* remove that empties the map.
remove_Clear(points, k) == [j \in {} |-> points[j]]

\* HashMap::remove: the map without the entry of k; a map that has no entry
\* of k is returned as it is.
remove(points, k) == [j \in DOMAIN points \ {k} |-> points[j]]

\* CleanupRemove without points.remove(unique_id): the entry stays in the
\* registry after the first party has answered.
CleanupRemove_KeepsEntry(a) ==
    /\ pc[a] = "remove"
    /\ lock' = [lock EXCEPT !.writer = {}]
    /\ response' = [response EXCEPT ![a] = match_result(a)]
    /\ pc' = [pc EXCEPT ![a] = "done"]
    /\ UNCHANGED <<unique_id, point, previous, result, wait_points,
                   parties_count, notify, allocated, solitary,
                   resolvedBefore, blockedBy, effects>>
    /\ UNCHANGED <<seen, app>>

\* cleanup_wait_point: points.remove(unique_id), the write guard is
\* dropped, and handle_first_party answers according to the wait's result.
CleanupRemove(a) ==
    /\ pc[a] = "remove"
    /\ wait_points' = remove(wait_points, unique_id[a])
    /\ effects' = [effects EXCEPT ![a] = @ \cup
                     (IF unique_id[a] \in DOMAIN wait_points
                      THEN {"remove"} ELSE {})]
    /\ lock' = [lock EXCEPT !.writer = {}]
    /\ response' = [response EXCEPT ![a] = match_result(a)]
    /\ pc' = [pc EXCEPT ![a] = "done"]
    /\ UNCHANGED <<unique_id, point, previous, result, parties_count,
                   notify, allocated, solitary, resolvedBefore, blockedBy>>
    /\ UNCHANGED <<seen, app>>

\* HandleSecondParty with notify_waiters in place of notify_one: no permit
\* is stored for a first party that has not started to wait.
HandleSecondParty_NotifyWaiters(a) ==
    /\ pc[a] = "second"
    /\ response' = [response EXCEPT ![a] =
                      success("Welcome! (second party)", unique_id[a])]
    /\ pc' = [pc EXCEPT ![a] = "done"]
    /\ UNCHANGED <<unique_id, point, previous, result, wait_points, lock,
                   parties_count, notify, allocated, solitary,
                   resolvedBefore, blockedBy, effects, seen, app>>

\* handle_second_party: point.notify.notify_one() and the success response.
HandleSecondParty(a) ==
    /\ pc[a] = "second"
    /\ notify' = [notify EXCEPT ![point[a]] = TRUE]
    /\ response' = [response EXCEPT ![a] =
                      success("Welcome! (second party)", unique_id[a])]
    /\ pc' = [pc EXCEPT ![a] = "done"]
    /\ UNCHANGED <<unique_id, point, previous, result, wait_points, lock,
                   parties_count, allocated, solitary, resolvedBefore,
                   blockedBy, effects>>
    /\ UNCHANGED <<seen, app>>

\* HandleExtraParty that calls notify_one on the point as the second party
\* does.
HandleExtraParty_Signals(a) ==
    /\ pc[a] = "extra"
    /\ notify' = [notify EXCEPT ![point[a]] = TRUE]
    /\ response' = [response EXCEPT ![a] =
                      error("Only 2 parties allowed at a time")]
    /\ pc' = [pc EXCEPT ![a] = "done"]
    /\ UNCHANGED <<unique_id, point, previous, result, wait_points, lock,
                   parties_count, allocated, solitary, resolvedBefore,
                   blockedBy, effects, seen, app>>

\* handle_extra_party: the conflict response.
HandleExtraParty(a) ==
    /\ pc[a] = "extra"
    /\ response' = [response EXCEPT ![a] =
                      error("Only 2 parties allowed at a time")]
    /\ pc' = [pc EXCEPT ![a] = "done"]
    /\ UNCHANGED <<unique_id, point, previous, result, wait_points, lock,
                   parties_count, notify, allocated, solitary,
                   resolvedBefore, blockedBy, effects>>
    /\ UNCHANGED <<seen, app>>

Next ==
    \/ \E a \in Arrivals, k \in Keys : Arrive(a, k)
    \/ \E a \in Arrivals : TryRead(a)
    \/ \E a \in Arrivals : Lookup(a)
    \/ \E a \in Arrivals : TryWrite(a)
    \/ \E a \in Arrivals : Insert(a)
    \/ \E a \in Arrivals : FetchAdd(a)
    \/ \E a \in Arrivals : Notified(a)
    \/ \E a \in Arrivals : Elapsed(a)
    \/ \E a \in Arrivals : CleanupTryWrite(a)
    \/ \E a \in Arrivals : CleanupRemove(a)
    \/ \E a \in Arrivals : HandleSecondParty(a)
    \/ \E a \in Arrivals : HandleExtraParty(a)

Spec == Init /\ [][Next]_vars

----------------------------------------------------------------------------
TypeOK ==
    /\ pc \in [Arrivals -> {"idle", "try_read", "lookup", "try_write",
                            "insert", "fetch_add", "first_wait", "cleanup",
                            "remove", "second", "extra", "done"}]
    /\ point \in [Arrivals -> 0..MaxArrivals]
    /\ previous \in [Arrivals -> -1..MaxArrivals]
    /\ allocated \in 0..MaxArrivals
    /\ DOMAIN wait_points \subseteq Keys
    /\ Cardinality(lock.writer) <= 1
    /\ lock.writer # {} => lock.readers = {}

----------------------------------------------------------------------------
\* Roles, as decided by the value fetch_add returned.

IsFirst(a) == previous[a] = 0

IsSecond(a) == previous[a] = 1

IsExtra(a) == previous[a] >= 2

Answered(a) == pc[a] = "done"

\* The points of key k that have a first party whose attempt is unresolved.
LivePoints(k) ==
    {point[a] : a \in {b \in Arrivals :
                         unique_id[b] = k /\ IsFirst(b) /\ InFlight(b)}}

----------------------------------------------------------------------------
\* C1: of the requests for one key that are in flight together, no two
\* observe previous = 0 (both first party) and no two observe previous = 1
\* (both second party).
C1_SingleFirstSingleSecond ==
    \A a, b \in Arrivals :
        (/\ a # b
         /\ InFlight(a) /\ InFlight(b)
         /\ unique_id[a] = unique_id[b]
         /\ previous[a] \in {0, 1})
        => previous[b] # previous[a]

\* C2: when a second party is answered with success, the first party of the
\* same point, once answered, is answered with success too.
C2_SecondSuccessImpliesFirstSuccess ==
    \A s, f \in Arrivals :
        (/\ IsSecond(s) /\ response[s].status = "success"
         /\ IsFirst(f) /\ point[f] = point[s]
         /\ Answered(f))
        => response[f].status = "success"

\* C3: a request that finds the counter of its point at 2 or more is
\* answered with conflict, and it is never the reason why the first party of
\* that point, released by the second party, is answered with something
\* other than success.
C3_ExtraConflictNoInterference ==
    /\ \A x \in Arrivals :
           IsExtra(x) /\ Answered(x) => response[x].code = "Conflict"
    /\ \A f, x \in Arrivals :
           (/\ IsFirst(f) /\ result[f] = "Ok" /\ Answered(f)
            /\ IsExtra(x) /\ point[x] = point[f])
           => x \notin blockedBy[f]

\* C4 (as stated): a request for a key that arrives after a first party of
\* that key was answered with success or timeout observes previous = 0.
C4_LaterArrivalIsFirst ==
    \A n \in Arrivals :
        resolvedBefore[n] # {} /\ previous[n] >= 0 => IsFirst(n)

\* C4 (amended): a request for a key that arrives after a first party of
\* that key was answered with success or timeout never obtains the point of
\* that resolved attempt: the point it obtains was created after it.
C4_LaterArrivalGetsFreshPoint ==
    \A n \in Arrivals :
        point[n] # 0 => \A p \in resolvedBefore[n] : point[n] > p

\* A request arrived after a resolution of its key, obtained a fresh point
\* and is its first party.
C4_Witness ==
    \E n \in Arrivals :
        /\ resolvedBefore[n] # {}
        /\ point[n] # 0
        /\ IsFirst(n)

\* C5: a request that is the only one of its key from its arrival to its
\* response is answered with timeout carrying the configured duration, and
\* its key is absent from the registry when it responds.
C5_SolitaryTimesOut ==
    [][\A a \in Arrivals :
          (pc[a] # "done" /\ pc'[a] = "done" /\ solitary'[a])
          => /\ response'[a] = timeout(DEFAULT_TIMEOUT, unique_id[a])
             /\ unique_id[a] \notin DOMAIN wait_points']_vars

\* C6: the wait of a first party ends with Ok only by the signal of a
\* second party of its own key, and a first party released by its second
\* party is answered with success whatever requests of other keys do: no
\* request of another key is the reason for a different answer.
C6_NoCrossTalk ==
    /\ \A f \in Arrivals :
           result[f] = "Ok"
           => \E s \in Arrivals :
                 /\ IsSecond(s) /\ point[s] = point[f]
                 /\ unique_id[s] = unique_id[f]
    /\ \A f, b \in Arrivals :
           (/\ IsFirst(f) /\ result[f] = "Ok" /\ Answered(f)
            /\ unique_id[b] # unique_id[f])
           => b \notin blockedBy[f]

\* C7: for every key at most one point has an unresolved pairing attempt.
C7_OneLivePointPerKey ==
    \A k \in Keys : Cardinality(LivePoints(k)) <= 1

\* C8: when no request is in flight the registry holds no entry.
C8_NoEntryLeftBehind ==
    (\A a \in Arrivals : ~InFlight(a)) => DOMAIN wait_points = {}

\* C9: a request that removed a registry entry is a first party whose wait
\* has ended, and a request acting as second or extra party has neither
\* removed nor replaced a registry entry.
C9_OnlyFirstPartyRemoves ==
    \A a \in Arrivals :
        /\ "remove" \in effects[a] => IsFirst(a) /\ result[a] # "none"
        /\ IsSecond(a) \/ IsExtra(a)
           => effects[a] \cap {"remove", "replace"} = {}

\* C10: a request whose try_read or try_write failed has been answered with
\* service unavailable and takes no further step.
C10_LockFailureIsUnavailable ==
    \A a \in Arrivals :
        blockedBy[a] # {}
        => pc[a] = "done" /\ response[a] = service_unavailable

\* The try_write of the cleanup of a first party failed.
C10_Witness ==
    \E a \in Arrivals :
        /\ blockedBy[a] # {}
        /\ IsFirst(a)
        /\ result[a] # "none"
        /\ response[a] = service_unavailable

----------------------------------------------------------------------------
\* The steps request a can take, and the number of steps that remain at most
\* from each position of wait_for_party.

Step(a) ==
    \/ TryRead(a) \/ Lookup(a) \/ TryWrite(a) \/ Insert(a) \/ FetchAdd(a)
    \/ Notified(a) \/ Elapsed(a) \/ CleanupTryWrite(a) \/ CleanupRemove(a)
    \/ HandleSecondParty(a) \/ HandleExtraParty(a)

Remaining ==
    [idle |-> 9, try_read |-> 8, lookup |-> 7, try_write |-> 6,
     insert |-> 5, fetch_add |-> 4, first_wait |-> 3, cleanup |-> 2,
     remove |-> 1, second |-> 1, extra |-> 1, done |-> 0]

\* C11: every request terminates with exactly one of the four outcomes.  A
\* request in flight always has an enabled step of its own (no try-lock
\* blocks, and the wait of a first party can always end, by the signal or by
\* the timeout), every step brings it strictly closer to its response, and
\* an answered request carries success, timeout, conflict or service
\* unavailable.  With a scheduler that keeps running every request that can
\* take a step, each request is answered after at most eight of its steps.
C11_EveryArrivalTerminates ==
    /\ [](\A a \in Arrivals : InFlight(a) => ENABLED Step(a))
    /\ [][\A a \in Arrivals :
             pc'[a] # pc[a] => Remaining[pc'[a]] < Remaining[pc[a]]]_vars
    /\ [](\A a \in Arrivals :
            pc[a] = "done"
            => response[a].code \in {"Ok", "RequestTimeout", "Conflict",
                                     "ServiceUnavailable"})

\* A first party that waited alone has been answered with timeout.
C11_Witness ==
    \E a \in Arrivals :
        /\ pc[a] = "done"
        /\ IsFirst(a)
        /\ result[a] = "Err"
        /\ response[a].code = "RequestTimeout"

C13_NoCrossKeyUnavailable ==
    \A a, b \in Arrivals :
        b \in blockedBy[a] => unique_id[b] = unique_id[a]

\* C14: the registry holds a point for a key exactly when a pairing attempt
\* on that point is open: the point is held by a request in flight that is
\* its unresolved first party or is about to take its role on it, and the
\* point of every unresolved first party is the entry of its key.
C14_EntryIffOpenAttempt ==
    /\ \A k \in DOMAIN wait_points :
           \E a \in Arrivals :
               /\ InFlight(a)
               /\ unique_id[a] = k
               /\ point[a] = wait_points[k]
               /\ IsFirst(a) \/ pc[a] = "fetch_add"
    /\ \A a \in Arrivals :
           IsFirst(a) /\ InFlight(a)
           => /\ unique_id[a] \in DOMAIN wait_points
              /\ wait_points[unique_id[a]] = point[a]

----------------------------------------------------------------------------
\* Construction of the application from every combination of sources.

ConfigInit ==
    /\ pc = [a \in Arrivals |-> "idle"]
    /\ unique_id = [a \in Arrivals |-> ""]
    /\ point = [a \in Arrivals |-> 0]
    /\ previous = [a \in Arrivals |-> -1]
    /\ result = [a \in Arrivals |-> "none"]
    /\ response = [a \in Arrivals |-> NoResponse]
    /\ wait_points = <<>>
    /\ lock = [readers |-> {}, writer |-> {}]
    /\ parties_count = [p \in Points |-> 0]
    /\ notify = [p \in Points |-> FALSE]
    /\ allocated = 0
    /\ solitary = [a \in Arrivals |-> FALSE]
    /\ resolvedBefore = [a \in Arrivals |-> {}]
    /\ blockedBy = [a \in Arrivals |-> {}]
    /\ effects = [a \in Arrivals |-> {}]
    /\ seen = [a \in Arrivals |-> NotSeen]
    /\ \E file \in Sources, env \in Sources :
           app = [file |-> file, env |-> env, state |-> "unbuilt",
                  timeout |-> {}]

\* build_rocket calls App::new once, before any request is served.
Build ==
    /\ app.state = "unbuilt"
    /\ app' = App_new(app.file, app.env)
    /\ UNCHANGED <<pc, unique_id, point, previous, result, response,
                   wait_points, lock, parties_count, notify, allocated,
                   solitary, resolvedBefore, blockedBy, effects, seen>>

ConfigNext == Build

ConfigSpec == ConfigInit /\ [][ConfigNext]_vars

\* C15: construction succeeds exactly when the resolved timeout lies in
\* 5..300 and fails otherwise, the timeout is 10 when no source sets it, a
\* constructed application holds the resolved timeout, within 5..300, and
\* that timeout never changes afterwards.
C15_TimeoutValidated ==
    /\ [](app.state # "unbuilt"
          => LET t == IF app.env # {} THEN app.env
                      ELSE IF app.file # {} THEN app.file
                      ELSE {10}
             IN /\ app.state = "Ok" <=> t \subseteq 5..300
                /\ app.state = "Ok" => app.timeout = t
                /\ app.state = "Err" => app.timeout = {})
    /\ [][app.state = "Ok" => app' = app]_vars

\* The application was built with the smallest and with the largest timeout
\* accepted, set by a file and by the environment.
C15_Witness ==
    /\ app.state = "Ok"
    /\ app.file = {5}
    /\ app.env = {300}
    /\ app.timeout = {300}

----------------------------------------------------------------------------
\* C16: get_or_create_point never changes the point of an entry that is in
\* the registry (an inserted point is not overwritten by another insert, a
\* lookup leaves the map as it is), so two requests for one key that both
\* obtain a point while no entry of the key is removed obtain the same one.
C16_GetOrCreateKeepsEntry ==
    [][\A k \in DOMAIN wait_points :
          k \in DOMAIN wait_points' => wait_points'[k] = wait_points[k]]_vars

\* C17: the wait of a first party has ended with Ok only if a request that
\* observed previous = 1 on the same point has called notify_one on it, and
\* a first party is answered with success only if its wait ended with Ok.
C17_SignalledOnlyBySecond ==
    \A f \in Arrivals :
        /\ result[f] = "Ok"
           => \E s \in Arrivals \ {f} :
                 IsSecond(s) /\ point[s] = point[f] /\ Answered(s)
        /\ IsFirst(f) /\ response[f].status = "success" => result[f] = "Ok"

\* A first party was released by the second party of its point and both are
\* answered with success.
C17_Witness ==
    \E f, s \in Arrivals :
        /\ IsFirst(f) /\ result[f] = "Ok" /\ response[f].status = "success"
        /\ IsSecond(s) /\ point[s] = point[f]
        /\ response[s].status = "success"

\* C18: a request whose lookup returned a point that the second party had
\* already incremented (counter at 2 or more) takes the role of extra party
\* on that same point and is answered with conflict; it inserts no point of
\* its own.
C18_LateArrivalIsExtra ==
    \A x \in Arrivals :
        seen[x] # NotSeen
        => /\ previous[x] >= 0 => IsExtra(x)
           /\ Answered(x)
              => response[x] = error("Only 2 parties allowed at a time")
           /\ effects[x] = {}

\* The second party has signalled and the first party has not completed its
\* cleanup when the lookup of a third request returns the point; the third
\* request is answered with conflict while the first party is still in
\* flight.
C18_Witness ==
    \E x, f \in Arrivals :
        /\ seen[x] = "signalled"
        /\ response[x].code = "Conflict"
        /\ IsFirst(f) /\ point[f] = point[x]
        /\ pc[f] \in {"first_wait", "cleanup", "remove"}

\* C19: a request holds the read lock exactly during its lookup and the
\* write lock exactly during its insert or its remove; a first party that
\* is waiting holds neither; and at every position other than the wait of
\* the first party the request can take its next step at once.
C19_LockHeldOnlyForOneOperation ==
    \A a \in Arrivals :
        /\ a \in lock.readers <=> pc[a] = "lookup"
        /\ a \in lock.writer <=> pc[a] \in {"insert", "remove"}
        /\ pc[a] = "first_wait" => a \notin Holders
        /\ InFlight(a) /\ pc[a] # "first_wait" => ENABLED Step(a)

\* A first party is waiting while another request holds the registry lock.
C19_Witness ==
    \E a, b \in Arrivals :
        /\ pc[a] = "first_wait"
        /\ "insert" \in effects[a]
        /\ b # a
        /\ b \in Holders

\* The requests that have executed fetch_add on point p.
Decided(p) == {a \in Arrivals : point[a] = p /\ previous[a] >= 0}

\* C20: the counter of a point is 0 when the point is created, equals at
\* any time the number of requests that have taken their role on the point,
\* these requests have read the values 0, 1, .. in turn (one increment by 1
\* for each), and no step decreases a counter.
C20_CounterCountsArrivals ==
    /\ [](\A p \in Points :
            /\ parties_count[p] = Cardinality(Decided(p))
            /\ {previous[a] : a \in Decided(p)} = 0..(parties_count[p] - 1)
            /\ p > allocated => parties_count[p] = 0)
    /\ [][\A p \in Points :
             /\ parties_count'[p] \in {parties_count[p], parties_count[p] + 1}
             /\ p > allocated /\ p <= allocated' => parties_count'[p] = 0]_vars

\* Three requests have taken their role on one point.
C20_Witness ==
    \E p \in Points :
        /\ parties_count[p] = 3
        /\ Cardinality(Decided(p)) = 3

----------------------------------------------------------------------------
\* C21: a request that observed previous >= 2 is at handle_extra_party or
\* answered, its handler can run at once, and the step that answers it gives
\* the conflict response and changes neither the notification state of any
\* point, nor a counter, nor the registry or its lock: the entry of its key
\* is the same after the step as before.
C21_ExtraPartyChangesNothing ==
    /\ [](\A x \in Arrivals :
            /\ IsExtra(x) => pc[x] \in {"extra", "done"}
            /\ pc[x] = "extra" => IsExtra(x) /\ ENABLED HandleExtraParty(x))
    /\ [][\A x \in Arrivals :
             pc[x] = "extra" /\ pc'[x] # "extra"
             => /\ pc'[x] = "done"
                /\ response'[x] = error("Only 2 parties allowed at a time")
                /\ notify' = notify
                /\ parties_count' = parties_count
                /\ wait_points' = wait_points
                /\ lock' = lock
                /\ effects'[x] = effects[x]]_vars

\* An extra party has been answered with conflict; no permit is stored on
\* its point, whose first party is still waiting, and the point is still
\* the entry of the key.
C21_Witness ==
    \E x, f \in Arrivals :
        /\ IsExtra(x) /\ Answered(x)
        /\ response[x].code = "Conflict"
        /\ IsFirst(f) /\ point[f] = point[x] /\ pc[f] = "first_wait"
        /\ ~notify[point[x]]
        /\ unique_id[x] \in DOMAIN wait_points
        /\ wait_points[unique_id[x]] = point[x]

\* C22: the step of a cleanup that has acquired the lock always succeeds
\* (the request is answered according to its wait, never with an error for a
\* missing entry); when the key is absent the registry is unchanged, when it
\* is present exactly its entry is deleted, the entries of the other keys
\* are unchanged in both cases, and a second removal of the key from the
\* resulting registry gives that registry again.
C22_RemoveIdempotent ==
    [][\A a \in Arrivals :
          pc[a] = "remove" /\ pc'[a] # "remove"
          => /\ pc'[a] = "done"
             /\ response'[a] = match_result(a)
             /\ unique_id[a] \notin DOMAIN wait_points
                => wait_points' = wait_points
             /\ DOMAIN wait_points' = DOMAIN wait_points \ {unique_id[a]}
             /\ \A j \in DOMAIN wait_points' :
                    wait_points'[j] = wait_points[j]
             /\ remove(wait_points', unique_id[a]) = wait_points'
             /\ remove(remove(wait_points, unique_id[a]), unique_id[a])
                = wait_points']_vars

\* A cleanup acquired the lock, found no entry of its key and the request
\* was answered according to its wait, while the entry of the other key is
\* in the registry.
C22_Witness ==
    \E a \in Arrivals :
        /\ IsFirst(a) /\ Answered(a)
        /\ blockedBy[a] = {}
        /\ "remove" \notin effects[a]
        /\ response[a].code \in {"Ok", "RequestTimeout"}
        /\ DOMAIN wait_points = Keys \ {unique_id[a]}

\* C23: the step of a second party stores a permit on its point; a stored
\* permit disappears only when the first party of that point consumes it and
\* its wait ends with Ok; and a first party that has not yet ended its wait
\* while a permit is stored on its point can end it with Ok and cannot end
\* it by timeout.
C23_SignalNeverLost ==
    /\ [][\A s \in Arrivals :
             pc[s] = "second" /\ pc'[s] # "second"
             => notify'[point[s]]]_vars
    /\ [][\A p \in Points :
             notify[p] /\ ~notify'[p]
             => \E f \in Arrivals :
                   /\ point[f] = p /\ IsFirst(f)
                   /\ result[f] = "none" /\ result'[f] = "Ok"]_vars
    /\ [](\A f \in Arrivals :
            pc[f] = "first_wait" /\ notify[point[f]]
            => ENABLED Notified(f) /\ ~ENABLED Elapsed(f))
    /\ [][\A f \in Arrivals :
             pc[f] = "first_wait" /\ notify[point[f]] /\ pc'[f] # pc[f]
             => result'[f] = "Ok"]_vars

\* The second party has signalled and is answered while the first party of
\* the point has not ended its wait: the permit is stored on the point.
C23_Witness ==
    \E f, s \in Arrivals :
        /\ pc[f] = "first_wait" /\ IsFirst(f)
        /\ IsSecond(s) /\ point[s] = point[f] /\ Answered(s)
        /\ notify[point[f]]

\* C24: the step of a cleanup that deletes an entry deletes the entry of
\* the point the request waited on, never the entry of another point of the
\* key whose first party is still unresolved.
C24_CleanupRemovesOwnPoint ==
    [][\A a \in Arrivals :
          (/\ pc[a] = "remove" /\ pc'[a] # "remove"
           /\ unique_id[a] \in DOMAIN wait_points
           /\ unique_id[a] \notin DOMAIN wait_points')
          => \/ wait_points[unique_id[a]] = point[a]
             \/ wait_points[unique_id[a]] \notin LivePoints(unique_id[a])]_vars

\* C25: a request answered with service unavailable because the try_read or
\* the try_write of get_or_create_point failed has inserted and removed no
\* entry, holds no point and has incremented no counter, and the step that
\* answers it changes neither the registry, nor its lock, nor a counter,
\* nor the notification state of a point.
C25_FailedGetOrCreateChangesNothing ==
    /\ [](\A a \in Arrivals :
            blockedBy[a] # {} /\ result[a] = "none"
            => /\ effects[a] = {}
               /\ point[a] = 0
               /\ previous[a] = -1
               /\ response[a] = service_unavailable)
    /\ [][\A a \in Arrivals :
             pc[a] \in {"try_read", "try_write"} /\ pc'[a] = "done"
             => /\ blockedBy'[a] # {}
                /\ wait_points' = wait_points
                /\ lock' = lock
                /\ parties_count' = parties_count
                /\ notify' = notify
                /\ allocated' = allocated]_vars

\* A try-lock of get_or_create_point failed because another request of the
\* same key holds the write lock for its insert, and the request was
\* answered with service unavailable.
C25_Witness ==
    \E a, b \in Arrivals :
        /\ blockedBy[a] = {b} /\ result[a] = "none"
        /\ Answered(a)
        /\ unique_id[b] = unique_id[a]
        /\ pc[b] = "insert"

\* C26: of the requests that hold one point, at most one has read
\* previous = 0 and at most one has read previous = 1, every other one that
\* has read the counter has read 2 or more, only a request that read 0 or 1
\* is answered with success, and so at most two requests of a point are
\* answered with success.
C26_TwoSuccessesPerPoint ==
    \A p \in Points :
        /\ Cardinality({a \in Arrivals : point[a] = p /\ previous[a] = 0})
           <= 1
        /\ Cardinality({a \in Arrivals : point[a] = p /\ previous[a] = 1})
           <= 1
        /\ \A a \in Arrivals :
               point[a] = p /\ response[a].status = "success"
               => previous[a] \in {0, 1}
        /\ Cardinality({a \in Arrivals :
                          point[a] = p /\ response[a].status = "success"})
           <= 2

\* Three requests of one point are answered: the one that read 0 and the
\* one that read 1 with success, the one that read 2 with conflict.
C26_Witness ==
    \E f, s, x \in Arrivals :
        /\ point[f] # 0 /\ point[s] = point[f] /\ point[x] = point[f]
        /\ previous[f] = 0 /\ response[f].status = "success"
        /\ previous[s] = 1 /\ response[s].status = "success"
        /\ previous[x] = 2 /\ response[x].code = "Conflict"
====
